---- MODULE Spec2Model ----
(***************************************************************************)
(* Mindful Echo (src/main.py): one browser session of the Streamlit chat   *)
(* script.  Every UI event re-runs the script top to bottom against the    *)
(* session state; the script keeps two things there, the ConversationChain *)
(* (with its ConversationBufferMemory) and the displayed message list.     *)
(* A script run that handles a submitted text blocks in chain.invoke while *)
(* the Gateway request is in flight, and resumes when it returns or raises.*)
(* Widget events are taken between script runs: a run is handled to its    *)
(* last line (or to st.stop) before the next event starts another run.     *)
(***************************************************************************)
EXTENDS Naturals, Sequences, FiniteSets

\* ---------------------------------------------------------------- bounds
\* Exchanges (user turn + assistant turn) shown in one transcript.
MaxExchanges == 3
\* Exchanges held by one chain memory.
MaxMemory == 3

\* Texts a user can submit; "" is the empty / absent submission.
Texts == {"hi", "how are you"}
Inputs == Texts \cup {""}
\* Texts the Gateway can answer with.
Replies == {"hello", "fine"}

\* ------------------------------------------------------- program constants
SYSTEM_PROMPT == "You are 'Mindful Echo', ..."
GREETING == "Hello! I'm Mindful Echo. How are you feeling today? I'm here to listen without judgment."
CLEARED == "Chat history cleared. How can I help you now?"
error_message == "Sorry, I encountered a problem processing your request. Please try again."

VARIABLES
    groq_api_key,   \* TRUE iff a non-empty credential was found (lines 13-21)
    keys,           \* the keys present in st.session_state
    memory,         \* chat_memory of st.session_state.conversation_chain
    messages,       \* st.session_state.messages
    rendered,       \* the chat input and the sidebar button are on the page
    pc,             \* "idle": no script run in progress; "invoke": blocked in chain.invoke
    user_input,     \* the text the current script run got from st.chat_input
    inflight,       \* message lists handed to the Gateway and not yet answered
    prior,          \* history variable: the transcript when the input arrived
    history,        \* history variable: exchanges the Gateway answered since the last reset
    outcome,        \* history variable: how the last script run ended
    reset_twice     \* history variable: the last two script runs were both resets

vars == <<groq_api_key, keys, memory, messages, rendered, pc, user_input,
          inflight, prior, history, outcome, reset_twice>>

\* ------------------------------------------------------------- data shapes
\* {"role": ..., "content": ...}, the dict kept in st.session_state.messages
Turn(role, content) == [role |-> role, content |-> content]

\* langchain_core.messages as the chain holds them
SystemMessage(content) == [type |-> "system", content |-> content]
HumanMessage(content) == [type |-> "human", content |-> content]
AIMessage(content) == [type |-> "ai", content |-> content]

\* The speaker role of a chain message, in the transcript's vocabulary.
RoleOf(m) ==
    CASE m.type = "system" -> "system"
      [] m.type = "human" -> "user"
      [] m.type = "ai" -> "assistant"

\* Variant: the chat_history placeholder is left out of the template.
prompt_template_no_history(chat_history, input) ==
    <<SystemMessage(SYSTEM_PROMPT), HumanMessage(input)>>

\* ChatPromptTemplate: system prompt, the chat_history placeholder, the human input.
prompt_template(chat_history, input) ==
    <<SystemMessage(SYSTEM_PROMPT)>> \o chat_history \o <<HumanMessage(input)>>

\* Variant: only the reply is recorded.
save_context_output_only(chat_memory, input, output) ==
    chat_memory \o <<AIMessage(output)>>

\* ConversationBufferMemory.save_context: records one answered exchange.
save_context(chat_memory, input, output) ==
    chat_memory \o <<HumanMessage(input), AIMessage(output)>>

\* Variant: the missing-key check of lines 62-64 is left out.
initialize_chain_no_key_check(api_key, constructs) ==
    [stopped |-> ~constructs, memory |-> <<>>]

\* initialize_chain: st.stop() without a key or when construction raises,
\* else a chain whose memory is empty.
initialize_chain(api_key, constructs) ==
    IF ~api_key
    THEN [stopped |-> TRUE, memory |-> <<>>]
    ELSE IF constructs
         THEN [stopped |-> FALSE, memory |-> <<>>]
         ELSE [stopped |-> TRUE, memory |-> <<>>]

\* ------------------------------------------------- session state initialization
\* Lines 113-114: the chain is built only when the session has none.
NeedsChain == "conversation_chain" \notin keys
StopsAtInit(constructs) ==
    NeedsChain /\ initialize_chain(groq_api_key, constructs).stopped
MemoryAfterInit(constructs) ==
    IF NeedsChain THEN initialize_chain(groq_api_key, constructs).memory ELSE memory
\* Variant: the list is created but the greeting is not appended.
MessagesAfterInit_no_greeting ==
    IF "messages" \notin keys THEN <<>> ELSE messages

\* Lines 116-121: the greeting is stored only when the session has no list.
MessagesAfterInit ==
    IF "messages" \notin keys THEN <<Turn("assistant", GREETING)>> ELSE messages

\* Variant: the user turn is inserted at the front.
AppendUser_front(msgs, input) == <<Turn("user", input)>> \o msgs

\* Line 134: the submitted text joins the transcript as a user turn.
AppendUser(msgs, input) == Append(msgs, Turn("user", input))
\* Variant: the reply is displayed but not stored.
AppendResponse_dropped(msgs, ai_response_content) == msgs

\* Line 159: the reply joins the transcript as an assistant turn.
AppendResponse(msgs, ai_response_content) ==
    Append(msgs, Turn("assistant", ai_response_content))
\* Variant: the except branch reports the error without storing the apology.
AppendError_dropped(msgs) == msgs

\* Lines 163-167: the except branch appends the fixed apology turn.
AppendError(msgs) == Append(msgs, Turn("assistant", error_message))
\* Variant: the greeting is appended to the list instead of replacing it.
ClearedMessages_appending(msgs) == Append(msgs, Turn("assistant", CLEARED))

\* Lines 173-175: the button replaces the list by one fixed turn.
ClearedMessages(msgs) == <<Turn("assistant", CLEARED)>>

\* The request the blocked script run is waiting on.
Request == inflight[Len(inflight)]

\* A script run that st.stop() ends inside initialize_chain at line 114.
StoppedRun ==
    /\ rendered' = FALSE
    /\ outcome' = "stopped"
    /\ user_input' = ""
    /\ prior' = <<>>
    /\ reset_twice' = FALSE
    /\ UNCHANGED <<groq_api_key, keys, memory, messages, pc, inflight, history>>

\* A script run that reaches its last line without a submitted text and
\* without the button pressed.
PlainRun(constructs) ==
    /\ keys' = {"conversation_chain", "messages"}
    /\ memory' = MemoryAfterInit(constructs)
    /\ messages' = MessagesAfterInit
    /\ rendered' = TRUE
    /\ outcome' = "done"
    /\ user_input' = ""
    /\ prior' = <<>>
    /\ reset_twice' = FALSE
    /\ UNCHANGED <<groq_api_key, pc, inflight, history>>

Init ==
    /\ groq_api_key \in BOOLEAN
    /\ keys = {}
    /\ memory = <<>>
    /\ messages = <<>>
    /\ rendered = FALSE
    /\ pc = "idle"
    /\ user_input = ""
    /\ inflight = <<>>
    /\ prior = <<>>
    /\ history = <<>>
    /\ outcome = "none"
    /\ reset_twice = FALSE

\* ------------------------------------------------------------------ actions
\* A script run with no widget event: the first page load, or a manual rerun.
PageRun ==
    /\ pc = "idle"
    /\ \E constructs \in BOOLEAN :
        IF StopsAtInit(constructs) THEN StoppedRun ELSE PlainRun(constructs)

\* Lines 113-155: the user submits a text; the run stores the user turn and
\* blocks in chain.invoke, which loads the memory into the prompt and sends it.
Submit ==
    /\ pc = "idle"
    /\ rendered
    /\ Len(messages) \div 2 < MaxExchanges
    /\ Len(memory) \div 2 < MaxMemory
    /\ \E text \in Inputs, constructs \in BOOLEAN :
        IF StopsAtInit(constructs) THEN StoppedRun
        ELSE IF text = "" THEN PlainRun(constructs)
        ELSE /\ keys' = {"conversation_chain", "messages"}
             /\ memory' = MemoryAfterInit(constructs)
             /\ prior' = MessagesAfterInit
             /\ messages' = AppendUser(MessagesAfterInit, text)
             /\ user_input' = text
             /\ inflight' = Append(inflight, prompt_template(memory', text))
             /\ pc' = "invoke"
             /\ rendered' = TRUE
             /\ outcome' = "pending"
             /\ reset_twice' = FALSE
             /\ UNCHANGED <<groq_api_key, history>>

\* Lines 155-161: invoke returns; the chain has saved the exchange in its
\* memory, and the run appends the reply and reaches its last line.
GatewayReturn ==
    /\ pc = "invoke"
    /\ \E reply \in Replies :
        LET response == [input |-> user_input, history |-> memory, response |-> reply]
            ai_response_content == response.response
        IN /\ memory' = save_context(memory, user_input, response.response)
           /\ messages' = AppendResponse(messages, ai_response_content)
           /\ history' = Append(history, <<user_input, reply>>)
    /\ inflight' = SubSeq(inflight, 1, Len(inflight) - 1)
    /\ pc' = "idle"
    /\ outcome' = "answered"
    /\ UNCHANGED <<groq_api_key, keys, rendered, user_input, prior, reset_twice>>

\* Lines 163-169: invoke raises; nothing was saved in the memory, and the run
\* appends the apology and reaches its last line.
GatewayRaise ==
    /\ pc = "invoke"
    /\ messages' = AppendError(messages)
    /\ inflight' = SubSeq(inflight, 1, Len(inflight) - 1)
    /\ pc' = "idle"
    /\ outcome' = "apologized"
    /\ UNCHANGED <<groq_api_key, keys, memory, rendered, user_input, prior,
                   history, reset_twice>>

\* Lines 172-178: the sidebar button.  The list is replaced first; the chain is
\* replaced only when initialize_chain returns, and st.rerun() then runs the
\* script once more, which changes nothing.  When initialize_chain stops the
\* run, the assignment of line 177 never happens and the old chain stays.
ClearChatHistory ==
    /\ pc = "idle"
    /\ rendered
    /\ \E constructs \in BOOLEAN, reconstructs \in BOOLEAN :
        IF StopsAtInit(constructs) THEN StoppedRun
        ELSE LET chain == initialize_chain(groq_api_key, reconstructs)
             IN /\ keys' = {"conversation_chain", "messages"}
                /\ messages' = ClearedMessages(MessagesAfterInit)
                /\ memory' = IF chain.stopped THEN MemoryAfterInit(constructs)
                                              ELSE chain.memory
                /\ outcome' = IF chain.stopped THEN "clear_stopped" ELSE "cleared"
                /\ rendered' = TRUE
                /\ user_input' = ""
                /\ prior' = <<>>
                /\ history' = <<>>
                /\ reset_twice' = (outcome \in {"cleared", "clear_stopped"})
                /\ UNCHANGED <<groq_api_key, pc, inflight>>

Next ==
    \/ PageRun
    \/ Submit
    \/ GatewayReturn
    \/ GatewayRaise
    \/ ClearChatHistory

Spec == Init /\ [][Next]_vars

\* ------------------------------------------------------------------ helpers
\* A chain message list in the transcript's vocabulary: role and content.
AsTurns(msgs) == [i \in 1..Len(msgs) |-> Turn(RoleOf(msgs[i]), msgs[i].content)]

IsPrefix(s, t) == Len(s) <= Len(t) /\ SubSeq(t, 1, Len(s)) = s

\* The chain messages of a list of answered exchanges <<input, reply>>.
RECURSIVE Replayed(_)
Replayed(exchanges) ==
    IF exchanges = <<>> THEN <<>>
    ELSE save_context(Replayed(SubSeq(exchanges, 1, Len(exchanges) - 1)),
                      exchanges[Len(exchanges)][1], exchanges[Len(exchanges)][2])

\* A greeting, then user and assistant turns in strict alternation.
GreetedAlternation(msgs) ==
    /\ Len(msgs) >= 1
    /\ Len(msgs) % 2 = 1
    /\ msgs[1].role = "assistant"
    /\ msgs[1].content \in {GREETING, CLEARED}
    /\ \A i \in 2..Len(msgs) :
        msgs[i].role = IF i % 2 = 0 THEN "user" ELSE "assistant"

ResetOutcomes == {"cleared", "clear_stopped"}

\* ------------------------------------------------------------------- claims

\* C1 (as stated): the request in flight is the System Instruction, then the
\* whole prior transcript verbatim, then the new user turn, and its length is
\* the prior transcript's length + 2.
C1_RequestIsPriorTranscript ==
    pc = "invoke" =>
        /\ AsTurns(Request) =
              <<Turn("system", SYSTEM_PROMPT)>> \o prior \o <<Turn("user", user_input)>>
        /\ Len(Request) = Len(prior) + 2

\* C1 (amended): the request in flight is the System Instruction, then the
\* turns held by the chain memory verbatim and in order, then the new user
\* turn; its first element has role system, its last element is the newest
\* user turn, and its length is the memory's length + 2.
C1_RequestIsMemoryReplay ==
    pc = "invoke" =>
        /\ Request = <<SystemMessage(SYSTEM_PROMPT)>> \o memory \o <<HumanMessage(user_input)>>
        /\ AsTurns(Request)[1] = Turn("system", SYSTEM_PROMPT)
        /\ AsTurns(Request)[Len(Request)] = Turn("user", user_input)
        /\ Len(Request) = Len(memory) + 2

\* C1 witness: a request that replays an earlier exchange is in flight.
C1_Witness ==
    /\ pc = "invoke"
    /\ Len(Request) = 4
    /\ Len(prior) = 3

\* C2: every submitted message list is one System Instruction turn, then
\* strictly alternating user/assistant turns, then one new user turn that the
\* transcript does not yet answer.
C2_RequestShape ==
    pc = "invoke" =>
        LET r == AsTurns(Request)
            n == Len(r)
        IN /\ n >= 2
           /\ n % 2 = 0
           /\ r[1] = Turn("system", SYSTEM_PROMPT)
           /\ \A i \in 2..n : r[i].role = IF i % 2 = 0 THEN "user" ELSE "assistant"
           /\ r[n] = Turn("user", user_input)
           /\ messages[Len(messages)] = Turn("user", user_input)

\* C2 witness: a request that replays an earlier exchange is in flight as the
\* first request after a reset (the reset could not rebuild the chain).
C2_Witness ==
    /\ pc = "invoke"
    /\ Len(Request) >= 4
    /\ prior = <<Turn("assistant", CLEARED)>>

\* C3: after a failed Gateway call the transcript has gained exactly the user
\* turn and the apology turn, the script run has ended normally, and the
\* session is ready for the next input.
C3_FailureAppendsApology ==
    outcome = "apologized" =>
        /\ messages = prior \o <<Turn("user", user_input), Turn("assistant", error_message)>>
        /\ pc = "idle"
        /\ inflight = <<>>
        /\ rendered
        /\ "conversation_chain" \in keys

\* C3 witness: a Gateway call has failed for a submitted input.
C3_Witness ==
    /\ outcome = "apologized"
    /\ user_input \in Texts
    /\ Len(messages) = 5

\* C4: after a reset, whatever the state before it and whether or not the
\* chain could be rebuilt, the transcript is the single fixed assistant
\* greeting; a second reset in a row leaves the same single turn.
C4_ResetYieldsGreeting ==
    outcome \in ResetOutcomes =>
        /\ Len(messages) = 1
        /\ messages = <<Turn("assistant", CLEARED)>>

\* C4 witness: two resets in a row have happened.
C4_Witness ==
    /\ outcome \in ResetOutcomes
    /\ reset_twice

\* C5: every step that is not a reset leaves the transcript it found as a
\* prefix of the transcript it leaves: turns are only added at the end.
C5_AppendOnly ==
    [][outcome' \in ResetOutcomes \/ IsPrefix(messages, messages')]_vars

\* C5 witness: five turns have been appended without a reset in between.
C5_Witness ==
    /\ Len(messages) = 5
    /\ messages[1].content = GREETING
    /\ outcome = "answered"

\* C6: without a credential no script run gets past initialize_chain: nothing
\* is stored in the session, no input widget is rendered, no user turn exists
\* and no request is sent.
C6_NoKeyNoInput ==
    ~groq_api_key =>
        /\ keys = {}
        /\ ~rendered
        /\ pc = "idle"
        /\ messages = <<>>
        /\ inflight = <<>>
        /\ outcome \in {"none", "stopped"}

\* C6 witness: a script run was attempted without a credential.
C6_Witness ==
    /\ ~groq_api_key
    /\ outcome = "stopped"

C8_TranscriptAlternates ==
    (pc = "idle" /\ outcome \notin {"none", "stopped"}) => GreetedAlternation(messages)

\* C8 witness: a completed run after a reset, a failed turn and a successful turn.
C8_Witness ==
    /\ pc = "idle"
    /\ Len(messages) = 5
    /\ messages[1].content = CLEARED
    /\ messages[3].content = error_message
    /\ outcome = "answered"

\* C9 (as stated): the chain memory is exactly the exchanges the Gateway
\* answered since the last reset, in order.
C9_MemoryIsHistorySinceReset ==
    memory = Replayed(history)

\* C10 (as stated): the first request after a reset carries only the System
\* Instruction and the new user turn.
C10_ResetClearsReplay ==
    (pc = "invoke" /\ prior = <<Turn("assistant", CLEARED)>>) =>
        AsTurns(Request) = <<Turn("system", SYSTEM_PROMPT), Turn("user", user_input)>>
====
